---- MODULE Spec2Model ----
(***************************************************************************)
(* Model of the global-notification batch dispatcher of                     *)
(* backend/core/admin/notification_admin_api.py: the background task        *)
(* send_notification_to_users, the submit endpoint send_global_notification *)
(* and the cancel endpoint cancel_global_notification_batch, all working on *)
(* the shared 'notifications' table.  Every awaited database call is one    *)
(* atomic step; the synchronous code up to the next await belongs to the    *)
(* same step.  A database call may raise instead of returning.              *)
(***************************************************************************)
EXTENDS Integers, Sequences, FiniteSets, TLC

\* ---------------------------------------------------------------- bounds
\* Largest number of recipients a request resolves to.
MaxUsers == 3
\* Chunk size of the dispatcher loop.  The source uses 100 (line 155); the
\* model scales it down so that several chunks fit in MaxUsers recipients.
batch_size == 2
\* Number of cancel requests an admin issues in one run.
MaxCancels == 1
\* Number of calls inside the task's try block (database calls,
\* send_notification) that raise in one run.
MaxFailures == 1
\* Modulus of the periodic progress write: progress is written when
\* (emails_sent + pushes_sent) % ProgressEvery == 0.  The source uses 10
\* (line 216); the model scales it down with the number of recipients.
ProgressEvery == 2

\* ------------------------------------------------------- program constants
\* Row id of the batch's tracking notification (tracking_notification_id).
TrackId == 0
\* The batch id returned by send_global_notification (uuid4, one batch).
BatchId == 1
\* A batch id that no submitted batch carries.
UnknownBatchId == 2
\* The batch id of a second batch that runs beside the first, the row id of
\* its tracking notification and the row id of its recipient's notification.
OtherBatchId == 3
OtherTrackId == 10
OtherUserRowId == 11
\* HTTP status codes raised by cancel_global_notification_batch.
\* (variant: an unknown batch id answered 410 Gone)
CancelNotFoundCode_Gone == 400 + 10
CancelNotFoundCode == 404
\* (variant: the rejection raised with the not-found status)
CancelRejectCode_NotFound == CancelNotFoundCode
CancelRejectCode == 400
CancelErrorCode == 500
CancelOkCode == 200

\* User id of the admin who submits the batch (created_by); the recipients are
\* the users 1..MaxUsers.
Admin == 0
Terminal == {"completed", "cancelled", "failed"}
Cancellable == {"pending", "sending"}

\* ------------------------------------------------------------------ helpers
Min(a, b) == IF a < b THEN a ELSE b
\* number of chunks of range(0, n, b)
CeilDiv(n, b) == (n + b - 1) \div b
Max(a, b) == IF a > b THEN a ELSE b

\* dict.get(key, default)
Get(d, key, default) == IF key \in DOMAIN d THEN d[key] ELSE default

\* The metadata argument of the request (GlobalNotificationRequest.metadata).
RequestMetadata == [campaign |-> "c1"]
\* Value of the local 'result' while no send_notification result is in use.
NoResult == [email_sent |-> FALSE, push_sent |-> FALSE]
\* Placeholder for "no row read" in the cancel handler and the status query.
NoMetadata == [none |-> TRUE]
\* HTTP status codes of get_global_notification_batch.
GetOkCode == 200
GetNotFoundCode == 404
GetErrorCode == 500
\* The answer of the status query: the HTTP status and, for a 200, the fields
\* of the body (a timestamp field is TRUE when it is not null).
GetAnswer(code, bid, st, total, es, ps, completed, cancelled) ==
  [status_code |-> code, batch_id |-> bid, status |-> st,
   total_recipients |-> total, emails_sent |-> es, pushes_sent |-> ps,
   completed_at |-> completed, cancelled_at |-> cancelled]
\* An HTTPException raised by the status query.
GetError(code, bid) == GetAnswer(code, bid, "none", 0, 0, 0, FALSE, FALSE)
\* No status query has been answered in the current state.
NoGet == GetError(0, 0)

\* A JSONB dict of category preferences: category -> "true" / "false".
NoDict == [c \in {} |-> "true"]
\* user_prefs is None (notification_service.py line 67).
NoPrefs ==
  [present |-> FALSE, email_enabled |-> "null", push_enabled |-> "null",
   email_categories |-> NoDict, push_categories |-> NoDict, push_token |-> ""]

\* The WebSocket connections that are accepted, and the session ids their
\* clients use.
Conns == {1, 2}
Sids == {1, 2}
\* An empty dict (self.sessions, self.pending_permissions, self.browsers).
NoEntries == [x \in {} |-> 0]
\* The dict d without key x (del d[x]).
Del(d, x) == [y \in DOMAIN d \ {x} |-> d[y]]

\* How a handle_browser_command ended: the result dict it returned, with its
\* 'success' and 'error' entries, or the exception it raised.
Succeeded == [ended |-> "returned", success |-> TRUE, error |-> ""]
Failed(e) == [ended |-> "returned", success |-> FALSE, error |-> e]
RaisedOut(e) == [ended |-> "raised", success |-> FALSE, error |-> e]
\* No handle_browser_command has ended for the connection.
NoCommand == [action |-> "none", ended |-> "none", success |-> FALSE, error |-> ""]

\* HTTP status codes of register_push_token (notification_api.py).
RegisterOkCode == 200
RegisterNotFoundCode == 404
RegisterErrorCode == 500

\* The empty user_account_map (line 82).
NoAccounts == [u \in {} |-> 0]

\* HTTP status codes of get_notifications (notification_api.py).
ListOkCode == 200
ListErrorCode == 500
\* An Optional[bool] query parameter is a sequence of at most one value;
\* None is the parameter that was not given.
None == <<>>
\* No user: no caller, or a null primary_owner_user_id.
NoUser == -1
\* NotificationListResponse (notification_api.py lines 127-131); the records
\* are the rows of the page.
ListAnswer(code, u, rows, total, unread) ==
  [status_code |-> code, user_id |-> u, notifications |-> rows,
   total |-> total, unread_count |-> unread]
NoList == ListAnswer(0, NoUser, {}, 0, 0)
NoListQuery == [user_id |-> NoUser, is_read |-> None, unread_only |-> FALSE,
                total |-> 0, notifications |-> {}]

VARIABLES
  notifications,            \* the notifications table: row id -> row
  pc,                       \* position of the background task
  submitted,                \* response of send_global_notification ("none" before)
  req,                      \* the request: resolved recipient count and channel flags
  total_recipients,         \* len(user_account_map)
  tracking_notification_id, \* TrackId once the tracking row is inserted, -1 before
  i,                        \* loop variable of the chunk loop
  k,                        \* 1-based index in user_items of the current recipient
  emails_sent, pushes_sent, \* the dispatcher's in-memory counters
  metadata,                 \* local variable 'metadata' (parameter, rebound at line 162)
  result,                   \* return value of the last send_notification
  cpc,                      \* position of the cancel handler
  c_bid,                    \* batch_id argument of the cancel in flight (0: none)
  c_id, c_metadata,         \* tracking_notif picked by the cancel handler
  cancels,                  \* cancel requests issued so far
  cancelResp,               \* the last cancel response: batch id, HTTP status, detail
  \* ---- history variables (not program state)
  attempted,                \* recipients passed to send_notification, in order
  okEmail, okPush,          \* send_notification returns with email_sent / push_sent true
  hi,                       \* highest counters read from the record while not terminal
  cancelLimit,              \* recipients allowed after the first accepted cancel (-1: none)
  fault,                    \* "escaped" once an exception reached line 257, else "none"
  failures,                 \* calls inside the try block that raised so far
  chunks,                   \* start indices of the chunks processed, in order
  delays,                   \* inter-chunk sleeps applied
  \* ---- the status query get_global_notification_batch
  gpc,                      \* position of the status query
  g_bid,                    \* its batch_id argument (0: none)
  g_tracking,               \* tracking_notif's metadata as found by the query
  getResp,                  \* answer of a status query given in the current state
  \* ---- the per-user notification list get_notifications
  lpc,                      \* position of the list handler
  l_query,                  \* its filters and what its queries returned so far
  listResp,                 \* answer of get_notifications given in the current state
  \* ---- recipient resolution (send_notification_to_users lines 81-109)
  target_user_ids,          \* the request's list of user ids (<<>>: None or empty)
  target_account_ids,       \* the request's list of account ids (<<>>: None or empty)
  accounts,                 \* the rows of basejump.accounts
  user_account_map,         \* user id -> account id, as built so far
  rpc,                      \* position of the resolution
  r_i,                      \* index in target_user_ids of the next user to look up
  \* ---- NotificationService.send_notification (notification_service.py)
  spc,                      \* position of the call
  s_args,                   \* its arguments send_email, send_push and category
  user_prefs,               \* the preferences row read at lines 66-77
  should_send_email, should_send_push,
  email_sent, push_sent,    \* the local delivery flags
  email_error, push_error,  \* the local error texts ("": None)
  db,                       \* what the call stored: the row's flags, the user's token
  s_result,                 \* how the call ended, with the flags it returned
  \* ---- history variables of the call (not program state)
  tried,                    \* channels on which a send was attempted
  delivered,                \* channels on which the send succeeded
  \* ---- register_push_token (notification_api.py) for the same user
  tpc,                      \* position of the handler
  t_req,                    \* the token asked for and whether a preferences row was found
  regResp,                  \* HTTP status of its last answer (0: none)
  \* ---- SunaWebSocketServer (websocket_server.py), one handler per connection
  wpc,                      \* position of each connection's handle_connection
  w_sid,                    \* its local session_id (0: None)
  sessions,                 \* self.sessions: session id -> the connection whose session it is
  session_lock,             \* connection holding self.session_lock (0: free)
  pending_permissions,      \* self.pending_permissions: permission id -> entry
  next_pid,                 \* permission ids handed out so far (uuid4: always fresh)
  w_cmd,                    \* command_id local to _handle_permission_approved
  msgs,                     \* messages received by the server so far
  \* ---- BrowserAutomationManager (browser_automation.py)
  browsers,                 \* self.browsers: browser id -> instance
  live,                     \* instances initialized and not closed
  next_inst,                \* instances constructed so far
  mlock,                    \* connection whose call holds the manager's lock (0: free)
  b_inst,                   \* the instance each handle_browser_command works with (0: none)
  w_action,                 \* the action of each connection's command in flight
  \* ---- history variables of the server (not program state)
  w_first,                  \* kind of each connection's first message
  w_count,                  \* messages each connection's loop has processed
  reports,                  \* messages sent to the clients: connection, kind, id
  b_result                  \* how each connection's last handle_browser_command ended

dvars == <<total_recipients, tracking_notification_id, i, k, emails_sent,
           pushes_sent, metadata, result>>
cvars == <<cpc, c_bid, c_id, c_metadata, cancels, cancelResp>>
hvars == <<attempted, okEmail, okPush>>
lvars == <<chunks, delays>>
xvars == <<lpc, l_query>>
rvars == <<target_user_ids, target_account_ids, accounts, user_account_map, rpc, r_i>>
svars == <<spc, s_args, user_prefs, should_send_email, should_send_push, email_sent,
           push_sent, email_error, push_error, db, s_result, tried, delivered>>
tvars == <<tpc, t_req, regResp>>
wvars == <<wpc, w_sid, sessions, session_lock, pending_permissions, next_pid, w_cmd,
           msgs, w_first, w_count, reports>>
bvars == <<browsers, live, next_inst, mlock, b_inst, w_action, b_result>>
ovars == <<rvars, svars, tvars, wvars, bvars>>
gvars == <<gpc, g_bid, g_tracking, xvars, ovars>>
vars == <<notifications, pc, submitted, req, dvars, cvars, hvars, hi, cancelLimit,
          fault, failures, lvars, gvars, getResp, listResp>>

\* --------------------------------------------------------- table accessors
TrackExists(nt) == TrackId \in DOMAIN nt
TrackMeta(nt) == nt[TrackId].metadata
\* batch_status stored in the tracking record ("none" while no record exists)
TrackStatus(nt) == IF TrackExists(nt) THEN Get(TrackMeta(nt), "batch_status", "none") ELSE "none"
StoredEmails(nt) == IF TrackExists(nt) THEN Get(TrackMeta(nt), "emails_sent", 0) ELSE 0
StoredPushes(nt) == IF TrackExists(nt) THEN Get(TrackMeta(nt), "pushes_sent", 0) ELSE 0

\* client.table('notifications').update({'metadata': m}).eq('id', id)
UpdateMetadata(nt, id, m) ==
  [r \in DOMAIN nt |-> IF r = id THEN [nt[r] EXCEPT !.metadata = m] ELSE nt[r]]

\* ------------------------------------------------------ metadata documents
\* lines 137-144: metadata of the inserted tracking row
InitialMetadata(total) ==
  [batch_id |-> BatchId, batch_status |-> "sending", total_recipients |-> total,
   emails_sent |-> 0, pushes_sent |-> 0, is_batch_tracker |-> TRUE]

\* lines 128-148: the tracking row
TrackingRow(total) ==
  [user_id |-> Admin, is_global |-> TRUE, metadata |-> InitialMetadata(total),
   email_sent |-> FALSE, push_sent |-> FALSE, is_read |-> TRUE]

\* lines 171-177: {**metadata, 'batch_status': 'cancelled', counters, cancelled_at}
SeenCancelledMetadata(m, es, ps) ==
  [batch_status |-> "cancelled", emails_sent |-> es, pushes_sent |-> ps,
   cancelled_at |-> TRUE] @@ m

\* lines 196-200: {**(metadata or {}), 'global_batch_id': ..., 'created_by': ...}
UserMetadata(m) == [global_batch_id |-> BatchId, created_by |-> Admin] @@ m

\* lines 218-225: the periodic progress document
ProgressMetadata(total, es, ps) ==
  [batch_id |-> BatchId, batch_status |-> "sending", total_recipients |-> total,
   emails_sent |-> es, pushes_sent |-> ps, is_batch_tracker |-> TRUE]

\* (variant: a final write that leaves the status at sending)
CompletedMetadata_StillSending(total, es, ps) ==
  [batch_id |-> BatchId, batch_status |-> "sending", total_recipients |-> total,
   emails_sent |-> es, pushes_sent |-> ps, is_batch_tracker |-> TRUE]
\* lines 239-246: the final document
CompletedMetadata(total, es, ps) ==
  [batch_id |-> BatchId, batch_status |-> "completed", total_recipients |-> total,
   emails_sent |-> es, pushes_sent |-> ps, is_batch_tracker |-> TRUE]

\* lines 266-271: the document written by the exception handler
FailedMetadata ==
  [batch_id |-> BatchId, batch_status |-> "failed", error |-> TRUE,
   is_batch_tracker |-> TRUE]

\* (variant: the write-back that forgets to set batch_status)
CancelledMetadata_KeepStatus(m) ==
  [cancelled_at |-> TRUE, cancelled_by |-> Admin] @@ m
\* lines 673-678: {**metadata, 'batch_status': 'cancelled', cancelled_at, cancelled_by}
CancelledMetadata(m) ==
  [batch_status |-> "cancelled", cancelled_at |-> TRUE, cancelled_by |-> Admin] @@ m

\* line 216: (emails_sent + pushes_sent) % 10 == 0 and tracking_notification_id
ProgressDue(es, ps, tid) == (es + ps) % ProgressEvery = 0 /\ tid # -1

\* (variant: the scan does not compare the batch id)
CancelCandidates_AnyBatch(nt, bid) ==
  {r \in DOMAIN nt : /\ nt[r].is_global
                     /\ Get(nt[r].metadata, "is_batch_tracker", FALSE)}
\* lines 653-657: the rows the cancel handler accepts as "the tracking notification"
CancelCandidates(nt, bid) ==
  {r \in DOMAIN nt : /\ nt[r].is_global
                     /\ Get(nt[r].metadata, "batch_id", 0) = bid
                     /\ Get(nt[r].metadata, "is_batch_tracker", FALSE)}

\* ---------------------------------------------------------- history helper
\* Highest counters a reader has seen in the record while it was not terminal.
SeenHi(nt) ==
  IF TrackExists(nt) /\ TrackStatus(nt) \notin Terminal
  THEN [e |-> Max(hi.e, StoredEmails(nt)), p |-> Max(hi.p, StoredPushes(nt))]
  ELSE hi

InitBatch ==
  /\ notifications = [r \in {} |-> NoMetadata]
  /\ pc = "idle"
  /\ submitted = "none"
  /\ req = [n |-> 0, send_email |-> FALSE, send_push |-> FALSE]
  /\ total_recipients = 0
  /\ tracking_notification_id = -1
  /\ i = 0
  /\ k = 0
  /\ emails_sent = 0
  /\ pushes_sent = 0
  /\ metadata = RequestMetadata
  /\ result = NoResult
  /\ cpc = "idle"
  /\ c_bid = 0
  /\ c_id = -1
  /\ c_metadata = NoMetadata
  /\ cancels = 0
  /\ cancelResp = [batch_id |-> 0, status_code |-> 0, detail |-> "none"]
  /\ attempted = <<>>
  /\ okEmail = 0
  /\ okPush = 0
  /\ hi = [e |-> 0, p |-> 0]
  /\ cancelLimit = -1
  /\ fault = "none"
  /\ failures = 0
  /\ chunks = <<>>
  /\ delays = 0
  /\ gpc = "idle"
  /\ g_bid = 0
  /\ g_tracking = NoMetadata
  /\ getResp = NoGet

\* No request to the notification list is in flight.
InitList ==
  /\ lpc = "idle"
  /\ l_query = NoListQuery
  /\ listResp = NoList

\* The accounts table as the batch model sees it: the recipients are drawn by
\* ResolveRecipients, no list is given and nothing has been resolved.
InitAccounts ==
  /\ target_user_ids = <<>>
  /\ target_account_ids = <<>>
  /\ accounts = {}
  /\ user_account_map = NoAccounts
  /\ rpc = "idle"
  /\ r_i = 1

\* No call of send_notification is modelled step by step.
NoCall ==
  /\ spc = "idle"
  /\ user_prefs = NoPrefs
  /\ should_send_email = FALSE
  /\ should_send_push = FALSE
  /\ email_sent = FALSE
  /\ push_sent = FALSE
  /\ email_error = ""
  /\ push_error = ""
  /\ db = [row |-> FALSE, email_sent |-> FALSE, push_sent |-> FALSE, push_token |-> ""]
  /\ s_result = [status |-> "none", email_sent |-> FALSE, push_sent |-> FALSE]
  /\ tried = [email |-> FALSE, push |-> FALSE]
  /\ delivered = [email |-> FALSE, push |-> FALSE]
\* No token registration is in flight.
NoRegister ==
  /\ tpc = "idle"
  /\ t_req = [push_token |-> "", existing |-> FALSE]
  /\ regResp = 0
\* websocket_server.py lines 96-101 and browser_automation.py lines 422-424:
\* empty registries; every connection is accepted and waits for its first
\* message.
NoServer ==
  /\ wpc = [c \in Conns |-> "recv"]
  /\ w_sid = [c \in Conns |-> 0]
  /\ sessions = NoEntries
  /\ session_lock = 0
  /\ pending_permissions = NoEntries
  /\ next_pid = 0
  /\ w_cmd = [c \in Conns |-> 0]
  /\ msgs = 0
  /\ w_first = [c \in Conns |-> "none"]
  /\ w_count = [c \in Conns |-> 0]
  /\ reports = {}
  /\ browsers = NoEntries
  /\ live = {}
  /\ next_inst = 0
  /\ mlock = 0
  /\ b_inst = [c \in Conns |-> 0]
  /\ w_action = [c \in Conns |-> "none"]
  /\ b_result = [c \in Conns |-> NoCommand]
InitService ==
  /\ NoCall /\ NoRegister /\ NoServer
  /\ s_args = [send_email |-> FALSE, send_push |-> FALSE, category |-> ""]

Init == InitBatch /\ InitList /\ InitAccounts /\ InitService

\* A step of the dispatcher, of submit or of cancel leaves the status query
\* where it is; an answer given before the step no longer describes the table.
NoQuery == getResp' = NoGet /\ listResp' = NoList /\ UNCHANGED gvars

\* ------------------------------------------------------------------ submit
\* (variant: the task awaited inside the request, no answer before it ends)
SubmitResponse_Late == "none"
\* lines 320-325: the body returned once the task is scheduled
SubmitResponse == "pending"

\* send_global_notification (lines 280-325): creates the batch id, schedules
\* the background task and answers 'pending' without touching the table.
SendGlobalNotification ==
  /\ pc = "idle"
  /\ \E n \in 0..MaxUsers, se \in BOOLEAN, sp \in BOOLEAN :
       req' = [n |-> n, send_email |-> se, send_push |-> sp]
  /\ \/ submitted' = SubmitResponse /\ pc' = "queued"
     \/ submitted' = "error" /\ pc' = "rejected"   \* lines 295-296, 329-331
  /\ NoQuery
  /\ UNCHANGED <<notifications, dvars, cvars, hvars, hi, cancelLimit, fault, failures, lvars>>

\* ------------------------------------------------------- background task
\* A call inside the try block raises: one more of the MaxFailures failures.
Fails == failures < MaxFailures /\ failures' = failures + 1
\* A call inside the try block returns.
Succeeds == UNCHANGED <<fault, failures>>

\* Lines 257-274 when the exception is raised before tracking_notification_id
\* is bound, or the task returns: nothing is written.
\* Otherwise the handler's write is the next step.
Raise ==
  /\ pc' = IF tracking_notification_id = -1 THEN "done" ELSE "handler"
  /\ fault' = "escaped"
  /\ Fails

\* lines 77-126: resolve the recipients and look up the admin's account.
\* These calls only read the accounts table.
ResolveRecipients ==
  /\ pc = "queued"
  /\ \/ /\ total_recipients' = req.n
        /\ pc' = IF req.n = 0 THEN "done" ELSE "insert"
        /\ Succeeds
     \/ /\ Raise
        /\ UNCHANGED total_recipients
  /\ NoQuery
  /\ UNCHANGED <<notifications, submitted, req, tracking_notification_id, i, k,
                 emails_sent, pushes_sent, metadata, result, cvars, hvars, hi,
                 cancelLimit, lvars>>

\* lines 128-157: insert the tracking row and enter the chunk loop.
InsertTracking ==
  /\ pc = "insert"
  /\ \/ /\ notifications' = (TrackId :> TrackingRow(total_recipients)) @@ notifications
        /\ tracking_notification_id' = TrackId
        /\ i' = 0
        /\ pc' = "check"
        /\ Succeeds
     \/ /\ Raise
        /\ UNCHANGED <<notifications, tracking_notification_id, i>>
  /\ hi' = SeenHi(notifications')
  /\ NoQuery
  /\ UNCHANGED <<submitted, req, total_recipients, k, emails_sent, pushes_sent,
                 metadata, result, cvars, hvars, cancelLimit, lvars>>

\* lines 159-181: the chunk-boundary read of the tracking record.  The row read
\* is bound to the local name 'metadata', which is also the request parameter.
CheckCancelled ==
  /\ pc = "check"
  /\ \/ /\ metadata' = TrackMeta(notifications)
        /\ IF Get(metadata', "batch_status", "none") = "cancelled"
           THEN pc' = "write_cancelled" /\ k' = k /\ chunks' = chunks
           ELSE pc' = "send" /\ k' = i + 1 /\ chunks' = Append(chunks, i)
        /\ Succeeds
     \/ /\ Raise
        /\ UNCHANGED <<metadata, k, chunks>>
  /\ NoQuery
  /\ UNCHANGED <<notifications, submitted, req, total_recipients,
                 tracking_notification_id, i, emails_sent, pushes_sent, result,
                 cvars, hvars, hi, cancelLimit, delays>>

\* lines 170-179: record the cancellation and return.
WriteCancelled ==
  /\ pc = "write_cancelled"
  /\ \/ /\ notifications' = UpdateMetadata(notifications, tracking_notification_id,
                               SeenCancelledMetadata(metadata, emails_sent, pushes_sent))
        /\ pc' = "done"
        /\ Succeeds
     \/ /\ Raise
        /\ UNCHANGED notifications
  /\ hi' = SeenHi(notifications')
  /\ NoQuery
  /\ UNCHANGED <<submitted, req, dvars, cvars, hvars, cancelLimit, lvars>>

\* The loop control that follows the handling of recipient k (lines 184, 230,
\* 232-236): next recipient of the chunk, the inter-chunk sleep, or the end.
\* (variant: the record is re-read after every recipient of the chunk)
Advance_CheckEachRecipient ==
  IF k < Min(i + batch_size, total_recipients)
  THEN pc' = "check" /\ k' = k
  ELSE /\ k' = k
       /\ pc' = IF i + batch_size < total_recipients THEN "sleep" ELSE "final"
\* (variant: the sleep is applied after every chunk, the last one included)
Advance_SleepAfterLast ==
  IF k < Min(i + batch_size, total_recipients)
  THEN pc' = "send" /\ k' = k + 1
  ELSE k' = k /\ pc' = IF i < total_recipients THEN "sleep" ELSE "final"
Advance ==
  IF k < Min(i + batch_size, total_recipients)
  THEN pc' = "send" /\ k' = k + 1
  ELSE /\ k' = k
       /\ pc' = IF i + batch_size < total_recipients THEN "sleep" ELSE "final"

\* (variant: a recipient whose send raised is tried again)
OnSendError_Retry == pc' = "send" /\ k' = k /\ Fails /\ UNCHANGED fault
\* (variant: an exception of send_notification that is not caught per recipient)
OnSendError_Abort == Raise /\ UNCHANGED k
\* lines 228-230: send_notification raised; log and continue with the next
\* recipient.
OnSendError == Advance /\ Fails /\ UNCHANGED fault

\* The row send_notification inserts for recipient u
\* (notification_service.py lines 93-108, 148-169).
UserRow(u, m, e, p) ==
  [user_id |-> u, is_global |-> FALSE, metadata |-> UserMetadata(m),
   email_sent |-> e, push_sent |-> p, is_read |-> FALSE]

\* lines 187-201: notification_service.send_notification for recipient k.
\* It raises before or after inserting the notification row, or returns the
\* delivery flags; a channel that was not requested is never reported sent.
SendNotification ==
  /\ pc = "send"
  /\ attempted' = Append(attempted, k)
  /\ \/ /\ OnSendError
        /\ UNCHANGED <<notifications, result, okEmail, okPush>>
     \/ /\ notifications' = (k :> UserRow(k, metadata, FALSE, FALSE)) @@ notifications
        /\ OnSendError
        /\ UNCHANGED <<result, okEmail, okPush>>
     \/ \E e \in BOOLEAN, p \in BOOLEAN :
          /\ e => req.send_email
          /\ p => req.send_push
          /\ notifications' = (k :> UserRow(k, metadata, e, p)) @@ notifications
          /\ result' = [email_sent |-> e, push_sent |-> p]
          /\ okEmail' = okEmail + (IF e THEN 1 ELSE 0)
          /\ okPush' = okPush + (IF p THEN 1 ELSE 0)
          /\ pc' = "mark_global"
          /\ k' = k
          /\ Succeeds
  /\ NoQuery
  /\ UNCHANGED <<submitted, req, total_recipients, tracking_notification_id, i,
                 emails_sent, pushes_sent, metadata, cvars, hi, cancelLimit, lvars>>

\* lines 204-216: flag the recipient's row as global, then count the
\* deliveries and decide whether a progress write is due.  If the update
\* raises, the except clause of line 228 skips the counting.
MarkGlobal ==
  /\ pc = "mark_global"
  /\ \/ /\ notifications' = [notifications EXCEPT ![k].is_global = TRUE]
        /\ emails_sent' = emails_sent + (IF result.email_sent THEN 1 ELSE 0)
        /\ pushes_sent' = pushes_sent + (IF result.push_sent THEN 1 ELSE 0)
        /\ IF ProgressDue(emails_sent', pushes_sent', tracking_notification_id)
           THEN pc' = "progress" /\ k' = k
           ELSE Advance
        /\ Succeeds
     \/ /\ Advance
        /\ Fails /\ UNCHANGED fault
        /\ UNCHANGED <<notifications, emails_sent, pushes_sent>>
  /\ result' = NoResult   \* 'result' is not read again before it is reassigned
  /\ NoQuery
  /\ UNCHANGED <<submitted, req, total_recipients, tracking_notification_id, i,
                 metadata, cvars, hvars, hi, cancelLimit, lvars>>

\* lines 217-226: the periodic progress write (a fresh document, status 'sending').
UpdateProgress ==
  /\ pc = "progress"
  /\ \/ /\ notifications' = UpdateMetadata(notifications, tracking_notification_id,
                               ProgressMetadata(total_recipients, emails_sent, pushes_sent))
        /\ Succeeds
     \/ /\ Fails /\ UNCHANGED fault    \* caught at line 228
        /\ UNCHANGED notifications
  /\ Advance
  /\ hi' = SeenHi(notifications')
  /\ NoQuery
  /\ UNCHANGED <<submitted, req, total_recipients, tracking_notification_id, i,
                 emails_sent, pushes_sent, metadata, result, cvars, hvars,
                 cancelLimit, lvars>>

\* lines 232-234 and the loop header: asyncio.sleep(0.1) between chunks.
Sleep ==
  /\ pc = "sleep"
  /\ i' = i + batch_size
  /\ pc' = "check"
  /\ delays' = delays + 1
  /\ NoQuery
  /\ UNCHANGED <<notifications, submitted, req, total_recipients,
                 tracking_notification_id, k, emails_sent, pushes_sent, metadata,
                 result, cvars, hvars, hi, cancelLimit, fault, failures, chunks>>

\* lines 236-255: the final write after the loop.
WriteCompleted ==
  /\ pc = "final"
  /\ \/ /\ notifications' = UpdateMetadata(notifications, tracking_notification_id,
                               CompletedMetadata(total_recipients, emails_sent, pushes_sent))
        /\ pc' = "done"
        /\ Succeeds
     \/ /\ Raise
        /\ UNCHANGED notifications
  /\ hi' = SeenHi(notifications')
  /\ NoQuery
  /\ UNCHANGED <<submitted, req, dvars, cvars, hvars, cancelLimit, lvars>>

\* lines 257-274: the handler of an exception that escaped the loop; a failure
\* of its own write is swallowed.
WriteFailed ==
  /\ pc = "handler"
  /\ \/ notifications' = UpdateMetadata(notifications, tracking_notification_id,
                            FailedMetadata)
     \/ UNCHANGED notifications   \* lines 273-274
  /\ pc' = "done"
  /\ hi' = SeenHi(notifications')
  /\ NoQuery
  /\ UNCHANGED <<submitted, req, dvars, cvars, hvars, cancelLimit, fault, failures,
                 lvars>>

Dispatcher ==
  \/ ResolveRecipients \/ InsertTracking \/ CheckCancelled \/ WriteCancelled
  \/ SendNotification \/ MarkGlobal \/ UpdateProgress \/ Sleep
  \/ WriteCompleted \/ WriteFailed

\* ------------------------------------------------------------------ cancel
\* The answer of the cancel endpoint: the HTTPException raised or the body
\* returned; the handler is then over.
Answer(code, detail, bid) ==
  /\ cancelResp' = [batch_id |-> bid, status_code |-> code, detail |-> detail]
  /\ cpc' = "idle"
  /\ c_bid' = 0
  /\ c_id' = -1
  /\ c_metadata' = NoMetadata

\* cancel_global_notification_batch, lines 644-670: scan the global rows for
\* the first one that carries the batch id and the tracker flag (the query has
\* no ORDER BY, so any matching row may come first), then check its status.
CancelLookupFor(bids) ==
  /\ cpc = "idle"
  /\ cancels < MaxCancels
  /\ cancels' = cancels + 1
  /\ \E bid \in bids :
       \/ Answer(CancelErrorCode, "internal", bid)
       \/ /\ CancelCandidates(notifications, bid) = {}
          /\ Answer(CancelNotFoundCode, "not_found", bid)
       \/ \E r \in CancelCandidates(notifications, bid) :
            LET m == notifications[r].metadata IN
            IF Get(m, "batch_status", "unknown") \notin Cancellable
            THEN Answer(CancelRejectCode, "cannot_cancel", bid)
            ELSE /\ cpc' = "update"
                 /\ c_bid' = bid
                 /\ c_id' = r
                 /\ c_metadata' = m
                 /\ UNCHANGED cancelResp
  /\ NoQuery
  /\ UNCHANGED <<notifications, pc, submitted, req, dvars, hvars, hi, cancelLimit,
                 fault, failures, lvars>>

\* A cancel request for the batch or for an id that no batch carries.
CancelLookup == CancelLookupFor({BatchId, UnknownBatchId})

\* The last recipient the dispatcher may still attempt if it stops at its next
\* chunk-boundary check: the end of the chunk in progress.
ChunkLimit ==
  IF pc \in {"send", "mark_global", "progress"}
  THEN Min(i + batch_size, total_recipients)
  ELSE Len(attempted)

\* lines 672-690: write the row back with batch_status 'cancelled' and answer.
CancelUpdate ==
  /\ cpc = "update"
  /\ \/ /\ notifications' = UpdateMetadata(notifications, c_id, CancelledMetadata(c_metadata))
        /\ Answer(CancelOkCode, "cancelled", c_bid)
        /\ cancelLimit' = IF cancelLimit = -1 /\ c_id = TrackId
                          THEN ChunkLimit ELSE cancelLimit
     \/ /\ Answer(CancelErrorCode, "internal", c_bid)
        /\ UNCHANGED <<notifications, cancelLimit>>
  /\ hi' = SeenHi(notifications')
  /\ NoQuery
  /\ UNCHANGED <<pc, submitted, req, dvars, cancels, hvars, fault, failures, lvars>>

Cancel == CancelLookup \/ CancelUpdate

\* ------------------------------------------------------------ status query
\* lines 495, 535-536: the rows the status query takes for the batch's user
\* notifications
UserNotifications(nt, bid) ==
  {r \in DOMAIN nt : /\ nt[r].is_global
                     /\ Get(nt[r].metadata, "global_batch_id", 0) = bid}

\* lines 553-628: the body built from tracking_notif's metadata tm (NoMetadata
\* when none was found) and the user notifications found.
BatchDetails(tm, nt, users, bid) ==
  LET rowEmails == Cardinality({r \in users : nt[r].email_sent})
      rowPushes == Cardinality({r \in users : nt[r].push_sent})
      st == Get(tm, "batch_status", "pending")
  IN IF tm = NoMetadata /\ users = {}
     THEN GetError(GetNotFoundCode, bid)
     ELSE IF tm # NoMetadata
     THEN GetAnswer(GetOkCode, bid, st,
                    Get(tm, "total_recipients", Cardinality(users)),
                    IF st \in {"sending", "pending"}
                      THEN Get(tm, "emails_sent", 0) ELSE rowEmails,
                    IF st \in {"sending", "pending"}
                      THEN Get(tm, "pushes_sent", 0) ELSE rowPushes,
                    Get(tm, "completed_at", FALSE),
                    Get(tm, "cancelled_at", FALSE))
     ELSE GetAnswer(GetOkCode, bid, "completed", Cardinality(users),
                    rowEmails, rowPushes, FALSE, FALSE)

\* The status query answers and is over.
GetReturn(resp) ==
  /\ getResp' = resp
  /\ gpc' = "idle"
  /\ g_bid' = 0
  /\ g_tracking' = NoMetadata

\* The status query only reads the table.
ReadOnly ==
  UNCHANGED <<notifications, pc, submitted, req, dvars, cvars, hvars, hi,
              cancelLimit, fault, failures, lvars, xvars, ovars, listResp>>

\* lines 457-493: the query for the tracking notification; the first row of
\* the unordered result that carries the tracker flag is taken.  A failure of
\* the connection is answered 500, a failure of the query leads to the
\* client-side fallback.
GetTrackingQuery ==
  /\ gpc = "idle"
  /\ \E bid \in {BatchId, UnknownBatchId} :
       \/ GetReturn(GetError(GetErrorCode, bid))
       \/ /\ gpc' = "fallback" /\ g_bid' = bid /\ g_tracking' = NoMetadata
          /\ getResp' = NoGet
       \/ /\ gpc' = "users" /\ g_bid' = bid
          /\ getResp' = NoGet
          /\ IF CancelCandidates(notifications, bid) = {}
             THEN g_tracking' = NoMetadata
             ELSE \E r \in CancelCandidates(notifications, bid) :
                    g_tracking' = notifications[r].metadata
  /\ ReadOnly

\* lines 495-500 and 553-628: the query for the user notifications, then the
\* answer.
GetUserQuery ==
  /\ gpc = "users"
  /\ \/ GetReturn(BatchDetails(g_tracking, notifications,
                               UserNotifications(notifications, g_bid), g_bid))
     \/ /\ gpc' = "fallback"
        /\ getResp' = NoGet
        /\ UNCHANGED <<g_bid, g_tracking>>
  /\ ReadOnly

\* lines 500-549: the client-side scan of the global rows (one page of 1000),
\* which keeps a tracking notification found before; then the answer.
GetFallback ==
  /\ gpc = "fallback"
  /\ \/ GetReturn(GetError(GetErrorCode, g_bid))
     \/ \E tm \in IF g_tracking # NoMetadata THEN {g_tracking}
                   ELSE IF CancelCandidates(notifications, g_bid) = {} THEN {NoMetadata}
                   ELSE {notifications[r].metadata :
                           r \in CancelCandidates(notifications, g_bid)} :
          GetReturn(BatchDetails(tm, notifications,
                                 UserNotifications(notifications, g_bid), g_bid))
  /\ ReadOnly

GetBatch == GetTrackingQuery \/ GetUserQuery \/ GetFallback

Next == SendGlobalNotification \/ Dispatcher \/ Cancel

Spec == Init /\ [][Next]_vars

\* The background task is scheduled by the event loop until it returns, and a
\* cancel request in flight is served to its end.
FairSpec == Spec /\ WF_vars(Dispatcher) /\ WF_vars(CancelUpdate)

\* The runs in which the cancel endpoint is never called: submit and the
\* background task alone, the task scheduled until it returns.  No record
\* reads cancelled in these runs, so the branch of lines 164-181
\* (WriteCancelled) is never taken and is left out.
DispatcherAlone ==
  \/ ResolveRecipients \/ InsertTracking \/ CheckCancelled
  \/ SendNotification \/ MarkGlobal \/ UpdateProgress \/ Sleep
  \/ WriteCompleted \/ WriteFailed
NextDispatch == SendGlobalNotification \/ DispatcherAlone
DispatchSpec == Init /\ [][NextDispatch]_vars /\ WF_vars(DispatcherAlone)

\* The status query beside submit and the background task (no cancel requests).
NextQuery == NextDispatch \/ GetBatch
QuerySpec == Init /\ [][NextQuery]_vars

\* ------------------------------------------------------------ second batch
\* A second batch of one recipient, run by another instance of
\* send_notification_to_users with batch id OtherBatchId.  Its steps write
\* the rows whose ids its own inserts returned.
OtherLeaves ==
  /\ NoQuery
  /\ UNCHANGED <<pc, submitted, req, dvars, cvars, hvars, hi, cancelLimit, fault,
                 failures, lvars>>

\* lines 128-150 for the second batch
OtherInsertTracking ==
  /\ OtherTrackId \notin DOMAIN notifications
  /\ notifications' =
       (OtherTrackId :> [TrackingRow(1) EXCEPT !.metadata.batch_id = OtherBatchId])
         @@ notifications
  /\ OtherLeaves

\* lines 159-162 and 187-208 for the second batch: its recipient's row, here
\* delivered on both channels, carries the metadata read from its tracking
\* row and is flagged is_global
OtherSendNotification ==
  /\ OtherTrackId \in DOMAIN notifications
  /\ OtherUserRowId \notin DOMAIN notifications
  /\ Get(notifications[OtherTrackId].metadata, "batch_status", "none") = "sending"
  /\ notifications' =
       (OtherUserRowId :>
          [UserRow(1, notifications[OtherTrackId].metadata, TRUE, TRUE)
             EXCEPT !.is_global = TRUE, !.metadata.global_batch_id = OtherBatchId])
         @@ notifications
  /\ OtherLeaves

\* lines 236-247 for the second batch
OtherWriteCompleted ==
  /\ OtherUserRowId \in DOMAIN notifications
  /\ Get(notifications[OtherTrackId].metadata, "batch_status", "none") # "completed"
  /\ notifications' = UpdateMetadata(notifications, OtherTrackId,
         [CompletedMetadata(1, 1, 1) EXCEPT !.batch_id = OtherBatchId])
  /\ OtherLeaves

OtherBatch == OtherInsertTracking \/ OtherSendNotification \/ OtherWriteCompleted

\* The first batch running without cancel requests of its own, beside the
\* second batch and cancel requests for the second batch.
NextTwoBatches ==
  \/ SendGlobalNotification \/ DispatcherAlone
  \/ OtherBatch
  \/ CancelLookupFor({OtherBatchId}) \/ CancelUpdate
TwoBatchSpec == Init /\ [][NextTwoBatches]_vars

\* ------------------------------------------------- the per-user list
\* notification_api.py lines 100-111: the rows selected for the caller; the
\* is_read parameter is preferred to the deprecated unread_only.  The category
\* and type filters are not given.
ListFilter(nt, u, is_read, unread_only) ==
  {r \in DOMAIN nt :
     /\ nt[r].user_id = u
     /\ IF is_read # None THEN nt[r].is_read = is_read[1]
        ELSE IF unread_only THEN nt[r].is_read = FALSE
        ELSE TRUE}

\* The callers of get_notifications: the admin and every possible recipient.
ListUsers == {Admin} \cup (1..MaxUsers)

\* The list handler only reads the table; the in-flight state of the batch
\* endpoints is left alone.
ListReadOnly ==
  UNCHANGED <<notifications, pc, submitted, req, dvars, cvars, hvars, hi,
              cancelLimit, fault, failures, lvars, gpc, g_bid, g_tracking, getResp,
              ovars>>

\* notification_api.py lines 133-135: any exception is answered 500.
ListFails ==
  /\ lpc' = "idle"
  /\ l_query' = NoListQuery
  /\ listResp' = ListAnswer(ListErrorCode, NoUser, {}, 0, 0)

\* notification_api.py lines 94-116: build the query for the caller and run
\* it once for the total.
ListCount ==
  /\ lpc = "idle"
  /\ \/ ListFails
     \/ \E u \in ListUsers, is_read \in {None, <<TRUE>>, <<FALSE>>}, unread_only \in BOOLEAN :
          /\ lpc' = "page"
          /\ l_query' = [user_id |-> u, is_read |-> is_read, unread_only |-> unread_only,
                         total |-> Cardinality(ListFilter(notifications, u, is_read,
                                                          unread_only)),
                         notifications |-> {}]
          /\ listResp' = NoList
  /\ ListReadOnly

\* notification_api.py lines 118-125: the first page of the same query; no
\* user has more rows than a page holds.
ListPage ==
  /\ lpc = "page"
  /\ \/ ListFails
     \/ /\ lpc' = "unread"
        /\ l_query' = [l_query EXCEPT !.notifications =
                         {notifications[r] : r \in ListFilter(notifications, l_query.user_id,
                                                l_query.is_read, l_query.unread_only)}]
        /\ listResp' = NoList
  /\ ListReadOnly

\* notification_api.py lines 127-135: the unread count, then the answer.
ListUnread ==
  /\ lpc = "unread"
  /\ \/ ListFails
     \/ /\ lpc' = "idle"
        /\ l_query' = NoListQuery
        /\ listResp' = ListAnswer(ListOkCode, l_query.user_id, l_query.notifications,
                                  l_query.total,
                                  Cardinality(ListFilter(notifications, l_query.user_id,
                                                         <<FALSE>>, FALSE)))
  /\ ListReadOnly

GetNotifications == ListCount \/ ListPage \/ ListUnread

\* A batch without cancel requests, and users reading their notification list.
NextList == NextDispatch \/ GetNotifications
ListSpec == Init /\ [][NextList]_vars

\* ------------------------------------------------- recipient resolution
Range(s) == {s[j] : j \in DOMAIN s}

\* Longest target list drawn.
MaxTargets == 2

\* Candidate rows of basejump.accounts: user 1 owns a personal and a team
\* account, user 2 a team account only, one personal account has no owner;
\* user 3 owns no account.
AccountRows ==
  {[id |-> 1, primary_owner_user_id |-> 1, personal_account |-> TRUE],
   [id |-> 2, primary_owner_user_id |-> 1, personal_account |-> FALSE],
   [id |-> 3, primary_owner_user_id |-> 2, personal_account |-> FALSE],
   [id |-> 4, primary_owner_user_id |-> NoUser, personal_account |-> TRUE]}
AccountIds == {a.id : a \in AccountRows}

\* Lists of at most MaxTargets elements of S, repetitions included.
Lists(S) == UNION {[1..n -> S] : n \in 0..MaxTargets}

\* A request with any target lists against any accounts table.
InitResolve ==
  /\ InitBatch /\ InitList /\ InitService
  /\ target_user_ids \in Lists(1..MaxUsers)
  /\ target_account_ids \in Lists(AccountIds)
  /\ accounts \in SUBSET AccountRows
  /\ user_account_map = NoAccounts
  /\ rpc = "idle"
  /\ r_i = 1

\* (variant: the account list takes precedence over the user list)
Branch_AccountsFirst(tu, ta) ==
  IF ta # <<>> THEN "accounts" ELSE IF tu # <<>> THEN "users" ELSE "all"
\* lines 84, 90, 98: 'if target_user_ids: ... elif target_account_ids: ... else:'
Branch(tu, ta) ==
  IF tu # <<>> THEN "users" ELSE IF ta # <<>> THEN "accounts" ELSE "all"

\* Resolution touches only its own variables and total_recipients.
ResolveLeaves ==
  UNCHANGED <<notifications, pc, submitted, req, tracking_notification_id, i, k,
              emails_sent, pushes_sent, metadata, result, cvars, hvars, hi,
              cancelLimit, fault, failures, lvars, gpc, g_bid, g_tracking, xvars,
              getResp, listResp, target_user_ids, target_account_ids, accounts,
              svars, tvars, wvars, bvars>>

\* lines 256-262: a query that raises ends the task before line 110.
ResolveRaise ==
  /\ rpc \in {"idle", "users"}
  /\ rpc' = "failed"
  /\ UNCHANGED <<user_account_map, r_i, total_recipients>>
  /\ ResolveLeaves

\* lines 82-84, 90, 98: the empty map and the choice of the branch.
ResolveStart ==
  /\ rpc = "idle"
  /\ Branch(target_user_ids, target_account_ids) = "users"
  /\ rpc' = "users"
  /\ UNCHANGED <<user_account_map, r_i, total_recipients>>
  /\ ResolveLeaves

\* lines 86-89: one listed user; the query returns at most one of the user's
\* personal accounts, and the user is kept only if there is one.
ResolveUser ==
  /\ rpc = "users"
  /\ r_i <= Len(target_user_ids)
  /\ LET user_id == target_user_ids[r_i]
         data == {a \in accounts : /\ a.primary_owner_user_id = user_id
                                   /\ a.personal_account}
     IN IF data # {}
        THEN \E a \in data : user_account_map' = (user_id :> a.id) @@ user_account_map
        ELSE UNCHANGED user_account_map
  /\ r_i' = r_i + 1
  /\ UNCHANGED <<rpc, total_recipients>>
  /\ ResolveLeaves

\* The map built from the rows of one accounts query: every owner that is
\* not null, mapped to one of the owner's rows (the last one in the result).
MapsOf(data) ==
  LET owners == {a.primary_owner_user_id : a \in data} \ {NoUser}
  IN {m \in [owners -> AccountIds] :
        \A u \in owners : \E a \in data : a.primary_owner_user_id = u /\ a.id = m[u]}

\* lines 90-97: the accounts whose id is listed, personal or not.
ResolveAccounts ==
  /\ rpc = "idle"
  /\ Branch(target_user_ids, target_account_ids) = "accounts"
  /\ \E m \in MapsOf({a \in accounts : a.id \in Range(target_account_ids)}) :
       user_account_map' = m
  /\ rpc' = "count"
  /\ UNCHANGED <<r_i, total_recipients>>
  /\ ResolveLeaves

\* lines 98-105: every personal account.
ResolveAll ==
  /\ rpc = "idle"
  /\ Branch(target_user_ids, target_account_ids) = "all"
  /\ \E m \in MapsOf({a \in accounts : a.personal_account}) : user_account_map' = m
  /\ rpc' = "count"
  /\ UNCHANGED <<r_i, total_recipients>>
  /\ ResolveLeaves

\* line 107: total_recipients = len(user_account_map).
ResolveCount ==
  /\ \/ rpc = "count"
     \/ rpc = "users" /\ r_i > Len(target_user_ids)
  /\ total_recipients' = Cardinality(DOMAIN user_account_map)
  /\ rpc' = "done"
  /\ UNCHANGED <<user_account_map, r_i>>
  /\ ResolveLeaves

NextResolve ==
  ResolveStart \/ ResolveUser \/ ResolveAccounts \/ ResolveAll \/ ResolveCount
    \/ ResolveRaise
ResolveSpec == InitResolve /\ [][NextResolve]_vars

\* ------------------------------------------------- send_notification
\* Python truthiness of a preference value: True, as opposed to False or null.
Truthy(v) == v = "true"

\* Categories a notification is sent under ("": None); the dispatcher passes
\* 'admin' (admin line 193).
Categories == {"admin", ""}
CategoryDicts == {NoDict} \cup {[c \in {"admin"} |-> v] : v \in {"true", "false"}}

\* The rows of user_notification_preferences a user can have.
PrefRows ==
  [present : {TRUE}, email_enabled : {"true", "false", "null"},
   push_enabled : {"true", "false", "null"},
   email_categories : CategoryDicts, push_categories : CategoryDicts,
   push_token : {"", "ExponentPushToken"}]

\* A call with any channel flags and category.
InitSend ==
  /\ InitBatch /\ InitList /\ InitAccounts /\ NoCall /\ NoRegister /\ NoServer
  /\ s_args \in [send_email : BOOLEAN, send_push : BOOLEAN, category : Categories]

\* (variant: the category preference is not consulted)
ShouldSend_IgnoreCategory(flag, prefs, enabled, categories, category) ==
  flag /\ (~prefs.present \/ Truthy(enabled))
\* notification_service.py lines 79-90: the channel flag, the enabled
\* preference (default True) and the category preference (default True).
ShouldSend(flag, prefs, enabled, categories, category) ==
  LET should_send == flag /\ (~prefs.present \/ Truthy(enabled))
  IN IF prefs.present /\ category # ""
     THEN should_send /\ Truthy(Get(categories, category, "true"))
     ELSE should_send

\* The call touches only its own variables.
CallLeaves ==
  UNCHANGED <<notifications, pc, submitted, req, dvars, cvars, hvars, hi,
              cancelLimit, fault, failures, lvars, gpc, g_bid, g_tracking, xvars,
              getResp, listResp, rvars, s_args, tvars, wvars, bvars>>

\* notification_service.py lines 177-179: an exception outside the two channel
\* blocks is logged and raised to the caller.
Raised ==
  /\ spc' = "raised"
  /\ s_result' = [status |-> "raised", email_sent |-> FALSE, push_sent |-> FALSE]

\* notification_service.py lines 64-77: read the user's preferences; a user
\* without a row gets one with the table's defaults, which is read back (or
\* nothing is).  The row holds the token a registration has stored before.
LoadPrefs ==
  /\ spc = "idle"
  /\ \/ \E p \in PrefRows \cup {NoPrefs} :
          /\ regResp = RegisterOkCode => (p.present /\ p.push_token = db.push_token)
          /\ user_prefs' = p
          /\ db' = [db EXCEPT !.push_token = p.push_token]
          /\ spc' = "insert"
          /\ UNCHANGED s_result
     \/ Raised /\ UNCHANGED <<user_prefs, db>>
  /\ UNCHANGED <<should_send_email, should_send_push, email_sent, push_sent,
                 email_error, push_error, tried, delivered>>
  /\ CallLeaves

\* notification_service.py lines 79-118: decide the channels and insert the
\* notification record with both flags false.
InsertRecord ==
  /\ spc = "insert"
  /\ should_send_email' = ShouldSend(s_args.send_email, user_prefs, user_prefs.email_enabled,
                                     user_prefs.email_categories, s_args.category)
  /\ should_send_push' = ShouldSend(s_args.send_push, user_prefs, user_prefs.push_enabled,
                                    user_prefs.push_categories, s_args.category)
  /\ \/ /\ db' = [db EXCEPT !.row = TRUE]
        /\ spc' = "email"
        /\ UNCHANGED s_result
     \/ Raised /\ UNCHANGED db
  /\ UNCHANGED <<user_prefs, email_sent, push_sent, email_error, push_error, tried,
                 delivered>>
  /\ CallLeaves

\* How the email block can end: no address found for the user; the send
\* succeeded; the send returned False; the send failed after the retries;
\* it failed and the retry-count update raised as well.
EmailOutcomes == {"no_address", "sent", "refused", "failed", "raised"}

\* notification_service.py lines 120-134 (and 214-261).
SendEmail ==
  /\ spc = "email"
  /\ IF should_send_email
     THEN \E o \in EmailOutcomes :
            /\ email_sent' = (o = "sent")
            /\ email_error' = IF o \in {"no_address", "failed", "raised"} THEN o ELSE ""
            /\ tried' = [tried EXCEPT !.email = (o # "no_address")]
            /\ delivered' = [delivered EXCEPT !.email = (o = "sent")]
     ELSE UNCHANGED <<email_sent, email_error, tried, delivered>>
  /\ spc' = "push"
  /\ UNCHANGED <<user_prefs, should_send_email, should_send_push, push_sent, push_error,
                 db, s_result>>
  /\ CallLeaves

\* notification_service.py line 163: the errors after which the token is
\* marked for refresh.
TokenErrors == {"DeviceNotRegistered", "InvalidCredentials"}
\* How the push block can end: sent; the token was rejected; the send failed
\* after the retries; it failed and the retry-count update raised as well.
PushOutcomes == {"sent", "failed", "raised"} \cup TokenErrors

\* (variant: the token is cleared whatever token is stored by now)
TokenAfterMark_Unconditional(stored, failed) == {"", stored}
\* notification_service.py lines 378-391: _mark_token_for_refresh sets
\* push_token to null in the row that still holds the failed token; an
\* exception of the update is logged and swallowed.
TokenAfterMark(stored, failed) == IF stored = failed THEN {"", stored} ELSE {stored}

\* notification_service.py lines 136-146 (and 263-353).
SendPush ==
  /\ spc = "push"
  /\ IF should_send_push /\ user_prefs.present /\ user_prefs.push_token # ""
     THEN \E o \in PushOutcomes :
            /\ push_sent' = (o = "sent")
            /\ push_error' = IF o = "sent" THEN "" ELSE o
            /\ tried' = [tried EXCEPT !.push = TRUE]
            /\ delivered' = [delivered EXCEPT !.push = (o = "sent")]
     ELSE UNCHANGED <<push_sent, push_error, tried, delivered>>
  /\ spc' = "update"
  /\ UNCHANGED <<user_prefs, should_send_email, should_send_push, email_sent, email_error,
                 db, s_result>>
  /\ CallLeaves

\* notification_service.py lines 148-175: clear a rejected token (a failure of
\* that update is swallowed, lines 379-391), store the delivery status if
\* there is any, and return the flags.
UpdateRecord ==
  /\ spc = "update"
  /\ \E token \in IF ~push_sent /\ push_error \in TokenErrors
                  THEN TokenAfterMark(db.push_token, user_prefs.push_token)
                  ELSE {db.push_token} :
       \/ /\ db' = [db EXCEPT !.email_sent = email_sent, !.push_sent = push_sent,
                              !.push_token = token]
          /\ spc' = "returned"
          /\ s_result' = [status |-> "returned", email_sent |-> email_sent,
                          push_sent |-> push_sent]
       \/ /\ email_sent \/ email_error # "" \/ push_sent \/ push_error # ""
          /\ db' = [db EXCEPT !.push_token = token]
          /\ Raised
  /\ UNCHANGED <<user_prefs, should_send_email, should_send_push, email_sent, push_sent,
                 email_error, push_error, tried, delivered>>
  /\ CallLeaves

NextSend == LoadPrefs \/ InsertRecord \/ SendEmail \/ SendPush \/ UpdateRecord
SendSpec == InitSend /\ [][NextSend]_vars

\* ------------------------------------------------- register_push_token
\* Tokens a device registers: the one the user may already have, and a new one.
NewTokens == {"ExponentPushToken", "ExponentPushToken2"}

\* The registration touches the preferences row's token only.
RegisterLeaves ==
  UNCHANGED <<notifications, pc, submitted, req, dvars, cvars, hvars, hi,
              cancelLimit, fault, failures, lvars, gpc, g_bid, g_tracking, xvars,
              getResp, listResp, rvars, wvars, bvars, spc, s_args, user_prefs,
              should_send_email,
              should_send_push, email_sent, push_sent, email_error, push_error,
              s_result, tried, delivered>>

\* notification_api.py lines 370-374: 404 and 500 answers.
RegisterFails(code) ==
  /\ tpc' = "idle"
  /\ regResp' = code
  /\ UNCHANGED <<t_req, db>>

\* notification_api.py lines 343-355: look up the user's account and whether
\* a preferences row exists.  A row read by send_notification exists; of one
\* not read yet either is possible.
RegisterCheck ==
  /\ tpc = "idle"
  /\ regResp = 0
  /\ \/ RegisterFails(RegisterNotFoundCode)
     \/ RegisterFails(RegisterErrorCode)
     \/ \E token \in NewTokens,
           existing \in IF spc # "idle" /\ user_prefs.present THEN {TRUE} ELSE BOOLEAN :
          /\ tpc' = "write"
          /\ t_req' = [push_token |-> token, existing |-> existing]
          /\ UNCHANGED <<regResp, db>>
  /\ RegisterLeaves

\* notification_api.py lines 357-374: update the row, or insert one; the
\* insert fails when the row has been created in the meantime.
RegisterWrite ==
  /\ tpc = "write"
  /\ \/ /\ db' = [db EXCEPT !.push_token = t_req.push_token]
        /\ tpc' = "idle"
        /\ regResp' = RegisterOkCode
        /\ UNCHANGED t_req
     \/ RegisterFails(RegisterErrorCode)
  /\ RegisterLeaves

RegisterPushToken == RegisterCheck \/ RegisterWrite

\* One call of send_notification and one token registration of the same user.
NextToken == NextSend \/ RegisterPushToken
TokenSpec == InitSend /\ [][NextToken]_vars

\* ------------------------------------------------- the WebSocket server
\* Messages the server receives in its message loops in one run.
MaxMessages == 3

\* What a connection's first message can be: a handshake with sessionId and
\* userId; one without userId; one without sessionId; a message of another
\* type; text that is not a JSON object.
FirstKinds == {"handshake", "no_user", "no_session", "other", "invalid_json"}

\* The server leaves the notification services alone.
ServerLeaves ==
  UNCHANGED <<notifications, pc, submitted, req, dvars, cvars, hvars, hi,
              cancelLimit, fault, failures, lvars, gpc, g_bid, g_tracking, xvars,
              getResp, listResp, rvars, svars, tvars>>

\* _send_message / _send_error (lines 416-438) to connection c.
Send(c, kind, id) == reports' = reports \cup {[conn |-> c, kind |-> kind, id |-> id]}

\* The handler of c moves to position p.
Goto(c, p) == wpc' = [wpc EXCEPT ![c] = p]
\* One more message of c has been processed by its loop.
Processed(c) == w_count' = [w_count EXCEPT ![c] = @ + 1]
Received == msgs < MaxMessages /\ msgs' = msgs + 1

\* lines 136-152 and 168-172: the first message.  Without a handshake type or
\* without both ids an error is sent and the handler returns through its
\* finally clause; text that is not JSON raises into 'except Exception'.
FirstMessage ==
  \E c \in Conns, kind \in FirstKinds, sid \in Sids :
    /\ wpc[c] = "recv"
    /\ w_first' = [w_first EXCEPT ![c] = kind]
    /\ w_sid' = [w_sid EXCEPT ![c] = IF kind \in {"handshake", "no_user"} THEN sid ELSE 0]
    /\ Goto(c, CASE kind = "handshake" -> "register"
                 [] kind = "no_user" -> "cleanup"
                 [] OTHER -> "closed")
    /\ IF kind \in {"no_user", "no_session", "other"}
       THEN Send(c, "error", 0)
       ELSE UNCHANGED reports
    /\ UNCHANGED <<sessions, session_lock, pending_permissions, next_pid, w_cmd, msgs,
                   w_count, bvars>>
    /\ ServerLeaves

\* lines 154-171: create the session under the lock and acknowledge.
RegisterSession ==
  \E c \in Conns :
    /\ wpc[c] = "register"
    /\ session_lock = 0
    /\ sessions' = (w_sid[c] :> c) @@ sessions
    /\ Goto(c, "loop")
    /\ Send(c, "acknowledged", w_sid[c])
    /\ UNCHANGED <<w_sid, session_lock, pending_permissions, next_pid, w_cmd, msgs,
                   w_first, w_count, bvars>>
    /\ ServerLeaves

\* lines 173-175, 200: the client closes the connection while the handler
\* waits for a message.
Disconnect ==
  \E c \in Conns :
    /\ wpc[c] \in {"recv", "loop"}
    /\ Goto(c, IF wpc[c] = "recv" THEN "closed" ELSE "cleanup")
    /\ UNCHANGED <<w_sid, sessions, session_lock, pending_permissions, next_pid, w_cmd,
                   msgs, w_first, w_count, reports, bvars>>
    /\ ServerLeaves

\* lines 178-182: the finally clause takes the lock and looks the session id up.
CleanupAcquire ==
  \E c \in Conns :
    /\ wpc[c] = "cleanup"
    /\ session_lock = 0
    /\ IF w_sid[c] \in DOMAIN sessions
       THEN session_lock' = c /\ Goto(c, "c_wait")
       ELSE UNCHANGED session_lock /\ Goto(c, "closed")
    /\ UNCHANGED <<w_sid, sessions, pending_permissions, next_pid, w_cmd, msgs, w_first,
                   w_count, reports, bvars>>
    /\ ServerLeaves

\* lines 183-186 and browser_automation.py lines 444-447: close_browser takes
\* the manager's lock; without a browser the session is deleted at once.
CleanupClose ==
  \E c \in Conns :
    /\ wpc[c] = "c_wait"
    /\ mlock = 0
    /\ IF w_sid[c] \in DOMAIN browsers
       THEN /\ mlock' = c
            /\ Goto(c, "c_closing")
            /\ UNCHANGED <<sessions, session_lock>>
       ELSE /\ sessions' = Del(sessions, w_sid[c])
            /\ session_lock' = 0
            /\ Goto(c, "closed")
            /\ UNCHANGED mlock
    /\ UNCHANGED <<w_sid, pending_permissions, next_pid, w_cmd, msgs, w_first, w_count,
                   reports, browsers, live, next_inst, b_inst, w_action, b_result>>
    /\ ServerLeaves

\* browser_automation.py lines 448-450 and websocket_server.py line 186: the
\* browser is closed and removed, then the session is deleted.
CleanupDone ==
  \E c \in Conns :
    /\ wpc[c] = "c_closing"
    /\ live' = live \ {browsers[w_sid[c]]}
    /\ browsers' = Del(browsers, w_sid[c])
    /\ mlock' = 0
    /\ sessions' = Del(sessions, w_sid[c])
    /\ session_lock' = 0
    /\ Goto(c, "closed")
    /\ UNCHANGED <<w_sid, pending_permissions, next_pid, w_cmd, msgs, w_first, w_count,
                   reports, next_inst, b_inst, w_action, b_result>>
    /\ ServerLeaves

\* The commandId values a client puts into its command messages (line 275).
CommandIds == {1, 2}

\* lines 261-299: a command; a permission entry under a fresh id for the
\* command id the client chose, and the permission request to the client.
Command ==
  \E c \in Conns, command_id \in CommandIds :
    /\ wpc[c] = "loop"
    /\ Received
    /\ next_pid' = next_pid + 1
    /\ pending_permissions' =
         (next_pid' :> [command_id |-> command_id, session_id |-> w_sid[c], conn |-> c])
           @@ pending_permissions
    /\ Send(c, "permission_request", next_pid')
    /\ Processed(c)
    /\ UNCHANGED <<wpc, w_sid, sessions, session_lock, w_cmd, w_first, bvars>>
    /\ ServerLeaves

\* The permissionId values a client can send: the ids issued so far (a uuid4
\* cannot be known before it is issued) and 0, an id that was never issued.
PermissionIds == 0..next_pid

\* (variant: an approval of an unknown permission id executes all the same)
Approve_Unchecked(c, permission_id) ==
  /\ pending_permissions' = Del(pending_permissions, permission_id)
  /\ w_cmd' = [w_cmd EXCEPT ![c] = permission_id]
  /\ Send(c, "executing", permission_id)
  /\ Goto(c, "exec")
  /\ UNCHANGED w_count
\* lines 337-364: an approval; an unknown permission id is answered with an
\* error, a pending one is removed and its command reported executing.
Approve(c, permission_id) ==
  IF permission_id \notin DOMAIN pending_permissions
  THEN /\ Send(c, "error", permission_id)
       /\ Processed(c)
       /\ UNCHANGED <<pending_permissions, w_cmd, wpc>>
  ELSE /\ pending_permissions' = Del(pending_permissions, permission_id)
       /\ w_cmd' = [w_cmd EXCEPT ![c] = pending_permissions[permission_id].command_id]
       /\ Send(c, "executing", pending_permissions[permission_id].command_id)
       /\ Goto(c, "exec")
       /\ UNCHANGED w_count

PermissionApproved ==
  \E c \in Conns, permission_id \in PermissionIds :
    /\ wpc[c] = "loop"
    /\ Received
    /\ Approve(c, permission_id)
    /\ UNCHANGED <<w_sid, sessions, session_lock, next_pid, w_first, bvars>>
    /\ ServerLeaves

\* lines 366-377: after the simulated execution the command is reported completed.
ExecutionDone ==
  \E c \in Conns :
    /\ wpc[c] = "exec"
    /\ Send(c, "completed", w_cmd[c])
    /\ w_cmd' = [w_cmd EXCEPT ![c] = 0]
    /\ Goto(c, "loop")
    /\ Processed(c)
    /\ UNCHANGED <<w_sid, sessions, session_lock, pending_permissions, next_pid, msgs,
                   w_first, bvars>>
    /\ ServerLeaves

\* lines 379-399: a denial removes the entry if there is one.
PermissionDenied ==
  \E c \in Conns, permission_id \in PermissionIds :
    /\ wpc[c] = "loop"
    /\ Received
    /\ pending_permissions' = Del(pending_permissions, permission_id)
    /\ Send(c, "denied", permission_id)
    /\ Processed(c)
    /\ UNCHANGED <<wpc, w_sid, sessions, session_lock, next_pid, w_cmd, w_first, bvars>>
    /\ ServerLeaves

\* browser_automation.py lines 508-548 and websocket_server.py lines 321-328:
\* handle_browser_command returns the result r, which is sent to the client.
BrowserReturns(c, a, r) ==
  /\ b_result' = [b_result EXCEPT ![c] = [action |-> a] @@ r]
  /\ b_inst' = [b_inst EXCEPT ![c] = 0]
  /\ Goto(c, "loop")
  /\ Processed(c)

\* browser_automation.py lines 508-541: with the instance in hand the action
\* is routed; an unknown action fails at once, a known one is awaited.
Route(c, a, inst) ==
  IF a = "unknown"
  THEN BrowserReturns(c, a, Failed("unknown_action"))
  ELSE /\ b_inst' = [b_inst EXCEPT ![c] = inst]
       /\ Goto(c, "b_act")
       /\ UNCHANGED <<b_result, w_count>>

\* websocket_server.py lines 301-320 and browser_automation.py lines 497-506:
\* a browser_action; the session's browser is looked up and, if there is
\* none, create_browser asks for the manager's lock.
BrowserAction ==
  \E c \in Conns, a \in {"navigate", "unknown"} :
    /\ wpc[c] = "loop"
    /\ Received
    /\ w_action' = [w_action EXCEPT ![c] = a]
    /\ IF w_sid[c] \in DOMAIN browsers
       THEN Route(c, a, browsers[w_sid[c]]) /\ UNCHANGED mlock
       ELSE /\ IF mlock = 0
               THEN mlock' = c /\ Goto(c, "b_init")
               ELSE UNCHANGED mlock /\ Goto(c, "b_lock")
            /\ UNCHANGED <<b_inst, b_result, w_count>>
    /\ UNCHANGED <<w_sid, sessions, session_lock, pending_permissions, next_pid, w_cmd,
                   w_first, reports, browsers, live, next_inst>>
    /\ ServerLeaves

\* (variant: create_browser does not look the id up again under the lock)
Existing_NoRecheck(bid) == {}
\* browser_automation.py lines 429-431: the instance found under the lock.
Existing(bid) == IF bid \in DOMAIN browsers THEN {browsers[bid]} ELSE {}

\* browser_automation.py lines 428-431: create_browser gets the lock; an
\* instance stored in the meantime is returned.
BrowserAcquire ==
  \E c \in Conns :
    /\ wpc[c] = "b_lock"
    /\ mlock = 0
    /\ IF Existing(w_sid[c]) # {}
       THEN (\E inst \in Existing(w_sid[c]) : Route(c, w_action[c], inst)) /\ UNCHANGED mlock
       ELSE /\ mlock' = c
            /\ Goto(c, "b_init")
            /\ UNCHANGED <<b_inst, b_result, w_count>>
    /\ UNCHANGED <<w_sid, sessions, session_lock, pending_permissions, next_pid, w_cmd,
                   msgs, w_first, reports, browsers, live, next_inst, w_action>>
    /\ ServerLeaves

\* browser_automation.py lines 433-438 and 62-89: the new instance is
\* initialized and stored, or the initialization fails and the exception is
\* turned into a failure result (lines 542-548).
BrowserInit ==
  \E c \in Conns :
    /\ wpc[c] = "b_init"
    /\ mlock' = 0
    /\ \/ /\ next_inst' = next_inst + 1
          /\ browsers' = (w_sid[c] :> next_inst') @@ browsers
          /\ live' = live \cup {next_inst'}
          /\ Route(c, w_action[c], next_inst')
       \/ /\ BrowserReturns(c, w_action[c], Failed("init_failed"))
          /\ UNCHANGED <<browsers, live, next_inst>>
    /\ UNCHANGED <<w_sid, sessions, session_lock, pending_permissions, next_pid, w_cmd,
                   msgs, w_first, reports, w_action>>
    /\ ServerLeaves

\* (variant: an action on a closed browser raises out of handle_browser_command)
Outcomes_Raise(inst) ==
  IF inst \in live THEN {Succeeded, Failed("action_failed")} ELSE {RaisedOut("closed")}
\* browser_automation.py lines 109-151: an action on the page succeeds or
\* fails; on a browser closed in the meantime it fails.
Outcomes(inst) ==
  IF inst \in live THEN {Succeeded, Failed("action_failed")} ELSE {Failed("closed")}

\* browser_automation.py lines 512-548: the awaited action ends.
BrowserActionDone ==
  \E c \in Conns :
    /\ wpc[c] = "b_act"
    /\ \E r \in Outcomes(b_inst[c]) : BrowserReturns(c, w_action[c], r)
    /\ UNCHANGED <<w_sid, sessions, session_lock, pending_permissions, next_pid, w_cmd,
                   msgs, w_first, reports, browsers, live, next_inst, mlock, w_action>>
    /\ ServerLeaves

NextServer ==
  \/ FirstMessage \/ RegisterSession \/ Disconnect
  \/ CleanupAcquire \/ CleanupClose \/ CleanupDone
  \/ Command \/ PermissionApproved \/ ExecutionDone \/ PermissionDenied
  \/ BrowserAction \/ BrowserAcquire \/ BrowserInit \/ BrowserActionDone
ServerSpec == Init /\ [][NextServer]_vars


\* The connection handlers with the permission messages only: no browser is
\* ever created, so the cleanup never has one to close.
NextPermission ==
  \/ FirstMessage \/ RegisterSession \/ Disconnect
  \/ CleanupAcquire \/ CleanupClose
  \/ Command \/ PermissionApproved \/ ExecutionDone \/ PermissionDenied
PermissionSpec == Init /\ [][NextPermission]_vars

\* The connection handlers with the browser_action messages only.
NextBrowser ==
  \/ FirstMessage \/ RegisterSession \/ Disconnect
  \/ CleanupAcquire \/ CleanupClose \/ CleanupDone
  \/ BrowserAction \/ BrowserAcquire \/ BrowserInit \/ BrowserActionDone
BrowserSpec == Init /\ [][NextBrowser]_vars

\* ===================================================================== claims
Status == TrackStatus(notifications)
LookupStep == cancels' = cancels + 1
\* batch id asked for by the cancel request whose lookup is the current step
LookupBid == IF cpc' = "update" THEN c_bid' ELSE cancelResp'.batch_id

\* C1: terminal states are absorbing: once the stored batch_status is
\* completed, cancelled or failed, no step changes it to a different terminal
\* status.  (The formula leaves the exception handler's failed aside and
\* speaks of the changes between completed and cancelled only.)
C1_TerminalAbsorbing ==
  [][(/\ Status \in {"completed", "cancelled"}
      /\ TrackStatus(notifications') \in {"completed", "cancelled"})
       => TrackStatus(notifications') = Status]_vars

\* C2: the stored status never regresses: once the record has read a terminal
\* status it never again reads sending.
C2_NoRegressToSending ==
  [][(Status \in Terminal) => (TrackStatus(notifications') # "sending")]_vars

\* C3: if a cancel was accepted for the batch while its record read sending,
\* the dispatcher stops and the final stored status is cancelled.  (Runs that
\* end in the exception handler's failed are left aside.)
C3_AcceptedCancelEndsCancelled ==
  (pc = "done" /\ cpc = "idle" /\ cancelLimit >= 0 /\ Status # "failed")
    => Status = "cancelled"

\* C4: once the chunk-boundary check has read cancelled, no further recipient
\* is passed to send_notification, and the record the dispatcher then writes
\* has status cancelled and counters equal to the successful deliveries of the
\* chunks processed so far.
C4_StopOnSeenCancelled ==
  [][/\ (pc = "write_cancelled") => (attempted' = attempted)
     /\ (pc = "write_cancelled" /\ pc' = "done")
          => /\ TrackStatus(notifications') = "cancelled"
             /\ StoredEmails(notifications') = okEmail
             /\ StoredPushes(notifications') = okPush]_vars

\* C5: after a cancel is accepted for a sending batch the dispatcher attempts
\* at most the recipients that remain in the chunk in progress.
C5_AtMostChunkInProgress ==
  cancelLimit >= 0 => Len(attempted) <= cancelLimit

\* C6: a cancel requested while the stored status is completed, cancelled or
\* failed is rejected with an error and writes nothing.
C6_TerminalCancelRejected ==
  [][(LookupStep /\ LookupBid = BatchId /\ Status \in Terminal)
       => /\ cpc' = "idle"
          /\ cancelResp'.status_code >= 400
          /\ notifications' = notifications]_vars

C8_PendingCancelAccepted ==
  [][(LookupStep /\ LookupBid = BatchId /\ pc \in {"queued", "insert"}
        /\ cancelResp'.detail # "internal")
       => cpc' = "update"]_vars

\* C9: the counters readable from the tracking record never decrease between
\* two reads that both find the record not terminal.
C9_CountersMonotone ==
  (TrackExists(notifications) /\ Status \notin Terminal)
    => /\ StoredEmails(notifications) >= hi.e
       /\ StoredPushes(notifications) >= hi.p
\* a record that cancel had rewritten as cancelled reads sending again, with
\* counters above those of the cancel's snapshot
C9_Witness ==
  /\ Status = "sending"
  /\ cancelLimit >= 0
  /\ StoredEmails(notifications) > 0
  /\ StoredPushes(notifications) > 0

\* C10: when the stored status is completed, emails_sent (pushes_sent) equals
\* the number of recipients for which send_notification returned email_sent
\* (push_sent) true.
C10_CompletedCountsSuccesses ==
  Status = "completed"
    => /\ StoredEmails(notifications) = okEmail
       /\ StoredPushes(notifications) = okPush

\* C11: if recipient resolution raises or yields zero recipients, the batch's
\* stored status becomes failed (with a reason), send_notification is never
\* called and both counters stay 0.
C11_NoRecipientsFailed ==
  [][(pc = "queued" /\ pc' = "done")
       => /\ TrackStatus(notifications') = "failed"
          /\ attempted' = <<>>
          /\ StoredEmails(notifications') = 0
          /\ StoredPushes(notifications') = 0]_vars

\* C13: when an exception escapes the processing loop and the handler stores
\* status failed, the stored emails_sent and pushes_sent are not lower than the
\* values the record held before the failure.
C13_FailedKeepsCounters ==
  [][(pc = "handler" /\ pc' = "done" /\ TrackStatus(notifications') = "failed")
       => /\ StoredEmails(notifications') >= StoredEmails(notifications)
          /\ StoredPushes(notifications') >= StoredPushes(notifications)]_vars

\* A successful delivery whose bookkeeping update (lines 205-208) raised: the
\* recipient's row reports a channel sent but was never flagged is_global.
LostSuccess(nt) ==
  \E r \in DOMAIN nt :
    ~nt[r].is_global /\ (nt[r].email_sent \/ nt[r].push_sent)

\* C14: when send_notification raises for a recipient, the dispatcher goes on
\* with the next recipient and the failing recipient adds nothing to either
\* counter; with no cancel and no other fault the batch ends completed, every
\* recipient attempted, with stored counters equal to the successes among the
\* other recipients.
C14_SendErrorSkipsRecipient ==
  [][/\ (pc = "send" /\ attempted' # attempted /\ pc' # "mark_global")
          => /\ pc' \in {"send", "sleep", "final"}
             /\ emails_sent' = emails_sent /\ pushes_sent' = pushes_sent
             /\ okEmail' = okEmail /\ okPush' = okPush
     /\ (/\ pc' = "done" /\ fault' = "none" /\ cancels' = 0
         /\ total_recipients' > 0 /\ ~LostSuccess(notifications'))
          => /\ TrackStatus(notifications') = "completed"
             /\ Len(attempted') = total_recipients'
             /\ StoredEmails(notifications') = okEmail'
             /\ StoredPushes(notifications') = okPush']_vars
\* a batch completed although send_notification raised for one recipient
\* (which left no row), with a successful delivery to another one
C14_Witness ==
  /\ pc = "done" /\ fault = "none" /\ cancels = 0
  /\ Status = "completed"
  /\ ~LostSuccess(notifications)
  /\ \E u \in 1..total_recipients : u \notin DOMAIN notifications
  /\ StoredEmails(notifications) > 0

\* The record reads completed with the resolved recipient count and the
\* dispatcher's final counts.
StoredCompleted ==
  /\ pc = "done"
  /\ Status = "completed"
  /\ Get(TrackMeta(notifications), "total_recipients", -1) = total_recipients
  /\ StoredEmails(notifications) = emails_sent
  /\ StoredPushes(notifications) = pushes_sent

\* C15: if no cancel is ever accepted and no exception escapes the loop, a
\* batch with N >= 1 recipients eventually reaches the stored status
\* completed, with total_recipients = N and stored counters equal to the
\* dispatcher's final counts.  (Checked on the runs without cancel requests.)
C15_EventuallyCompleted ==
  (pc = "insert") ~> (fault = "escaped" \/ StoredCompleted)
\* a batch of MaxUsers recipients completed with deliveries counted, no cancel
\* requested and no exception escaped
C15_Witness ==
  /\ StoredCompleted
  /\ cancels = 0 /\ fault = "none"
  /\ total_recipients = MaxUsers
  /\ StoredEmails(notifications) + StoredPushes(notifications) >= MaxUsers

\* C17: send_global_notification returns the batch id with status pending
\* without performing or waiting for any delivery: its step touches neither
\* the table nor any recipient, and every delivery attempt comes after the
\* answer.
C17_SubmitAnswersPending ==
  [][/\ (pc = "idle" /\ pc' = "queued")
          => /\ submitted' = "pending"
             /\ attempted' = <<>>
             /\ notifications' = notifications
     /\ (attempted' # <<>>) => (submitted' = "pending")]_vars
\* the answer is out, recipients are waiting and nothing has been delivered
C17_Witness ==
  /\ submitted = "pending" /\ pc = "queued"
  /\ req.n = MaxUsers
  /\ attempted = <<>> /\ DOMAIN notifications = {}

\* C18: with N recipients a batch that is not cancelled processes exactly
\* ceil(N / batch_size) chunks, in order, every recipient once, and applies
\* the inter-chunk delay exactly ceil(N / batch_size) - 1 times, never after
\* the last chunk.
C18_ChunksAndDelays ==
  [][/\ (pc' = "final")
          => /\ Len(chunks') = CeilDiv(total_recipients', batch_size)
             /\ \A j \in 1..Len(chunks') : chunks'[j] = (j - 1) * batch_size
             /\ delays' = Len(chunks') - 1
             /\ attempted' = [j \in 1..total_recipients' |-> j]
     /\ (delays' # delays)
          => /\ Len(attempted) < total_recipients
             /\ pc' = "check"]_vars
\* the loop has ended after two chunks and one delay
C18_Witness ==
  /\ pc = "final"
  /\ total_recipients > batch_size
  /\ Len(chunks) >= 2 /\ delays >= 1

\* C19: in every state where at least one delivery has been attempted, the
\* tracking record exists and its total_recipients equals the size of the
\* resolved recipient set, also after the batch is cancelled or failed.
C19_TotalRecipientsKept ==
  (attempted # <<>>)
    => /\ TrackExists(notifications)
       /\ Get(TrackMeta(notifications), "total_recipients", -1) = total_recipients

\* C20: the dispatcher writes progress only after a recipient whose successful
\* delivery brought emails_sent + pushes_sent to a new multiple of the
\* interval; a recipient with no successful delivery triggers no progress write.
C20_ProgressOnlyAfterSuccess ==
  [][(pc = "mark_global" /\ pc' = "progress")
       => (result.email_sent \/ result.push_sent)]_vars

\* C12: for the batch id returned by send_global_notification the status query
\* returns a well-formed snapshot, never not-found, at every point of the
\* batch's life.  (Failures of the database itself, answered 500, are left
\* aside.)
C12_SubmittedBatchIsFound ==
  (submitted = "pending" /\ getResp.batch_id = BatchId)
    => getResp.status_code # GetNotFoundCode

\* C16: whenever the stored status is completed the record carries a
\* completion timestamp, and a status query that answers completed returns a
\* non-null completed_at.
C16_CompletedHasTimestamp ==
  /\ (Status = "completed") => ("completed_at" \in DOMAIN TrackMeta(notifications))
  /\ (getResp.status_code = GetOkCode /\ getResp.status = "completed")
       => getResp.completed_at

\* The positions of the background task inside a chunk (lines 184-230).
InChunk == {"send", "mark_global", "progress"}

\* C21: a cancel written while a chunk is being processed does not interrupt
\* that chunk: the dispatcher leaves a chunk only after every recipient of the
\* chunk has been attempted, whatever the record reads, and it acts on a
\* cancel (lines 164-181) only at a chunk-boundary check.
C21_ChunkNotInterrupted ==
  [][/\ (pc' = "write_cancelled" /\ pc # "write_cancelled") => (pc = "check")
     /\ (pc \in InChunk /\ pc' \notin InChunk)
          => /\ pc' \in {"sleep", "final"}
             /\ Len(attempted') = Min(i + batch_size, total_recipients)]_vars
\* the record reads cancelled, written after this chunk's boundary check, and
\* the dispatcher is about to attempt a further recipient of the chunk
C21_Witness ==
  /\ pc = "send" /\ k > i + 1
  /\ Status = "cancelled" /\ cancelLimit >= k

\* The row with the given id, if it exists.
Record(nt, id) == IF id \in DOMAIN nt THEN <<nt[id]>> ELSE <<>>

\* C22: with two batches running concurrently no step taken for one batch
\* changes the other batch's tracking record.  A step that moves the first
\* batch's task (submit, dispatcher progress, completion, failure) leaves the
\* second batch's record as it is; every other step (the second batch's
\* dispatcher, a cancel request for the second batch) leaves the first
\* batch's record as it is.
C22_OtherRecordUntouched ==
  [][/\ (pc' # pc)
          => Record(notifications', OtherTrackId) = Record(notifications, OtherTrackId)
     /\ (pc' = pc)
          => Record(notifications', TrackId) = Record(notifications, TrackId)]_vars
\* the first batch is sending with deliveries counted while a cancel for the
\* second batch has been written to the second batch's record
C22_Witness ==
  /\ pc \in InChunk
  /\ Status = "sending" /\ StoredEmails(notifications) > 0
  /\ OtherTrackId \in DOMAIN notifications
  /\ Get(notifications[OtherTrackId].metadata, "batch_status", "none") = "cancelled"
  /\ cancelResp.status_code = CancelOkCode

\* C23: for a batch whose stored status is completed, a status query (here one
\* whose two reads both see the completed batch) returns emails_sent and
\* pushes_sent equal to the final counters the dispatcher stored.
C23_CompletedCountersReturned ==
  [][(/\ gpc = "users" /\ gpc' = "idle"
      /\ g_bid = BatchId
      /\ pc = "done" /\ Status = "completed"
      /\ g_tracking \in {notifications[r].metadata :
                           r \in CancelCandidates(notifications, BatchId)}
      /\ getResp'.status_code = GetOkCode)
       => /\ getResp'.emails_sent = StoredEmails(notifications)
          /\ getResp'.pushes_sent = StoredPushes(notifications)]_vars

\* Some batch's tracking record carries the batch id.
TrackingCarries(nt, bid) ==
  \E r \in {TrackId, OtherTrackId} \cap DOMAIN nt :
    Get(nt[r].metadata, "batch_id", 0) = bid

\* C24: a cancel for a batch id that no tracking record carries returns
\* not-found (HTTP 404) and modifies no record; a failure of the lookup query
\* itself is left aside.
C24_UnknownIdNotFound ==
  [][(/\ LookupStep
      /\ ~TrackingCarries(notifications, LookupBid)
      /\ cancelResp'.detail # "internal")
       => /\ cpc' = "idle"
          /\ cancelResp'.status_code = 404
          /\ notifications' = notifications]_vars
\* an unknown batch id was answered not-found while the batch's record and a
\* recipient's row exist and read sending
C24_Witness ==
  /\ cancelResp.batch_id = UnknownBatchId
  /\ cancelResp.detail = "not_found"
  /\ Status = "sending"
  /\ CancelCandidates(notifications, BatchId) # {TrackId}

\* The dispatcher stands between two recipients (or after the last one).
BetweenRecipients == pc \in {"send", "sleep", "check", "final"} /\ Len(attempted) > 0

\* C25: while the batch is sending, after any recipient has been processed the
\* stored emails_sent + pushes_sent differs from the in-memory sum by less
\* than the refresh period, for every pattern of channel successes (here even
\* with no database call failing).
C25_ProgressLagBounded ==
  (BetweenRecipients /\ Status = "sending" /\ failures = 0)
    => (emails_sent + pushes_sent)
         - (StoredEmails(notifications) + StoredPushes(notifications)) < ProgressEvery

\* C26: within one batch the recipients passed to send_notification are the
\* resolved recipients in resolution order, none of them twice; when the batch
\* has ended completed every resolved recipient has been passed exactly once.
C26_EachRecipientOnce ==
  /\ \A j \in DOMAIN attempted : attempted[j] = j
  /\ Len(attempted) <= total_recipients
  /\ (pc = "done" /\ Status = "completed") => Len(attempted) = total_recipients
\* a batch of more than one chunk ended completed although one send raised
C26_Witness ==
  /\ pc = "done" /\ Status = "completed"
  /\ total_recipients > batch_size
  /\ Len(attempted) = total_recipients
  /\ failures = 1 /\ okEmail + okPush < total_recipients

\* C27: get_notifications returns no record flagged is_batch_tracker; stated
\* here for the admin who created the batch, with any is_read filter or none.
C27_ListHidesTrackers ==
  (listResp.status_code = ListOkCode /\ listResp.user_id = Admin)
    => \A n \in listResp.notifications : ~Get(n.metadata, "is_batch_tracker", FALSE)

\* The users the request selects: the listed users that own a personal
\* account; without a user list the owners of the listed accounts; without
\* any list the owners of all personal accounts.
Selected ==
  IF target_user_ids # <<>>
  THEN {u \in Range(target_user_ids) :
          \E a \in accounts : a.primary_owner_user_id = u /\ a.personal_account}
  ELSE IF target_account_ids # <<>>
  THEN {a.primary_owner_user_id :
          a \in {b \in accounts : b.id \in Range(target_account_ids)}} \ {NoUser}
  ELSE {a.primary_owner_user_id : a \in {b \in accounts : b.personal_account}} \ {NoUser}

\* C28: recipient selection follows the precedence user list, account list,
\* all personal-account owners; listed users without a personal account are
\* dropped, duplicates collapse, and total_recipients is the number of
\* distinct users resolved.
C28_SelectionPrecedence ==
  rpc = "done" => /\ DOMAIN user_account_map = Selected
                  /\ total_recipients = Cardinality(Selected)
\* a user list naming one user twice and a user without personal account was
\* resolved to one recipient although an account list was given as well
C28_Witness ==
  /\ rpc = "done"
  /\ Len(target_user_ids) > 1
  /\ Range(target_user_ids) \ DOMAIN user_account_map # {}
  /\ target_account_ids # <<>>
  /\ Range(target_account_ids) \cap {a.id : a \in accounts} # {}
  /\ total_recipients = 1

\* The conditions under which a channel is enabled for the call.
Enabled(flag, enabled, categories) ==
  /\ flag
  /\ user_prefs.present => enabled # "false"
  /\ ~(user_prefs.present /\ Get(categories, s_args.category, "true") = "false")
EmailEnabled ==
  Enabled(s_args.send_email, user_prefs.email_enabled, user_prefs.email_categories)
PushEnabled ==
  /\ Enabled(s_args.send_push, user_prefs.push_enabled, user_prefs.push_categories)
  /\ user_prefs.present /\ user_prefs.push_token # ""

\* C29: send_notification attempts a channel only when it is enabled (email:
\* send_email, email_enabled not false, category not disabled; push: the same
\* for push and a push token); for a channel that is not enabled no send is
\* attempted and the returned flag is false.
C29_OnlyEnabledChannels ==
  /\ tried.email => EmailEnabled
  /\ tried.push => PushEnabled
  /\ (spc # "idle" /\ ~EmailEnabled) => (~tried.email /\ ~s_result.email_sent)
  /\ (spc # "idle" /\ ~PushEnabled) => (~tried.push /\ ~s_result.push_sent)
\* a call returned after sending the email, with push requested but disabled
\* for the category
C29_Witness ==
  /\ spc = "returned"
  /\ s_args.send_email /\ s_args.send_push /\ s_args.category = "admin"
  /\ tried.email /\ s_result.email_sent
  /\ user_prefs.push_token # ""
  /\ Get(user_prefs.push_categories, "admin", "true") = "false"
  /\ ~tried.push /\ ~s_result.push_sent

\* C30: once send_notification has ended, the flags stored on the
\* notification record are true exactly for the channels whose send succeeded.
C30_FlagsMatchDeliveries ==
  (spc \in {"returned", "raised"} /\ db.row)
    => /\ db.email_sent = delivered.email
       /\ db.push_sent = delivered.push

\* C31: a step of send_notification after the preferences were read changes
\* the stored push token only by clearing it, only after a DeviceNotRegistered
\* or InvalidCredentials failure, and only if the stored token still equals
\* the token that failed: a token registered meanwhile is never cleared.
C31_NewTokenKept ==
  [][(spc # "idle" /\ spc' # spc /\ db'.push_token # db.push_token)
       => /\ db'.push_token = ""
          /\ push_error \in TokenErrors
          /\ db.push_token = user_prefs.push_token]_vars
\* the send of the old token was rejected and the call returned while the
\* table holds the token registered during the call
C31_Witness ==
  /\ spc = "returned"
  /\ push_error \in TokenErrors
  /\ regResp = RegisterOkCode
  /\ user_prefs.push_token = "ExponentPushToken"
  /\ db.push_token = "ExponentPushToken2"

\* Positions of a handshaken connection whose client has not closed it.
OpenPositions == {"loop", "exec", "b_lock", "b_init", "b_act"}
AllClosed == \A c \in Conns : wpc[c] = "closed"

\* C32: a session is registered and messages are processed only after a first
\* message that is a handshake with sessionId and userId; after any other
\* first message an error has been sent by the time the handler has returned.
C32_HandshakeFirst ==
  \A c \in Conns :
    /\ (\E sid \in DOMAIN sessions : sessions[sid] = c) => w_first[c] = "handshake"
    /\ w_count[c] > 0 => w_first[c] = "handshake"
    /\ (wpc[c] = "closed" /\ w_first[c] \notin {"none", "handshake"})
         => [conn |-> c, kind |-> "error", id |-> 0] \in reports

\* C33: while a handshaken connection is open, sessions[sessionId] exists and
\* is that connection's own session.
C33_OwnSessionRegistered ==
  \A c \in Conns :
    wpc[c] \in OpenPositions
      => (w_sid[c] \in DOMAIN sessions /\ sessions[w_sid[c]] = c)

\* C34: after every connection has closed, the session registry is empty and
\* the browser manager holds no browser.
C34_NothingLeaked ==
  AllClosed => (sessions = NoEntries /\ browsers = NoEntries)

\* C35: a permission_approved arriving on a session other than the one that
\* issued the command never removes the pending permission and starts the
\* execution.
C35_OwnSessionApproves ==
  [][\A c \in Conns, p \in DOMAIN pending_permissions :
       (p \notin DOMAIN pending_permissions' /\ wpc[c] = "loop" /\ wpc'[c] = "exec")
         => pending_permissions[p].session_id = w_sid[c]]_vars

\* C36: a command is reported executing only by the approval of a permission
\* id that is pending for it; the approval removes the id, and an id that was
\* removed is never pending again, so each id starts one execution at most;
\* a command is reported completed only after executing; an approval that is
\* answered with an error names an id that is not pending and executes
\* nothing.
C36_PendingApprovedOnce ==
  [][/\ DOMAIN pending_permissions' \ DOMAIN pending_permissions \subseteq {next_pid + 1}
     /\ next_pid' >= next_pid
     /\ \A c \in Conns :
          /\ (wpc[c] = "loop" /\ wpc'[c] = "exec")
               => \E p \in DOMAIN pending_permissions \ DOMAIN pending_permissions' :
                    /\ pending_permissions[p].command_id = w_cmd'[c]
                    /\ [conn |-> c, kind |-> "executing", id |-> w_cmd'[c]] \in reports'
          /\ \A n \in 0..(MaxMessages + 1) :
               /\ ([conn |-> c, kind |-> "executing", id |-> n] \in reports' \ reports)
                    => (wpc[c] = "loop" /\ wpc'[c] = "exec" /\ w_cmd'[c] = n)
               /\ ([conn |-> c, kind |-> "completed", id |-> n] \in reports' \ reports)
                    => [conn |-> c, kind |-> "executing", id |-> n] \in reports
               /\ (/\ wpc[c] = "loop"
                   /\ [conn |-> c, kind |-> "error", id |-> n] \in reports' \ reports)
                    => (n \notin DOMAIN pending_permissions /\ wpc'[c] = "loop")]_vars
\* a command was approved and completed, and a second approval of the same
\* permission id was answered with an error
C36_Witness ==
  \E c \in Conns, d \in Conns, n \in CommandIds :
    /\ [conn |-> c, kind |-> "permission_request", id |-> 1] \in reports
    /\ [conn |-> c, kind |-> "executing", id |-> n] \in reports
    /\ [conn |-> c, kind |-> "completed", id |-> n] \in reports
    /\ [conn |-> d, kind |-> "error", id |-> 1] \in reports
    /\ next_pid = 1

\* C37: no entry of pending_permissions refers to a session whose connection
\* has closed.
C37_NoPermissionOfClosedSession ==
  \A p \in DOMAIN pending_permissions : wpc[pending_permissions[p].conn] # "closed"

\* C38: the manager keeps at most one browser instance per browser id: the
\* instances alive are exactly those registered, and every caller at work on
\* an instance that is alive has the one registered under its id.
C38_OneBrowserPerId ==
  /\ live = {browsers[b] : b \in DOMAIN browsers}
  /\ \A c \in Conns :
       (wpc[c] = "b_act" /\ b_inst[c] \in live)
         => (w_sid[c] \in DOMAIN browsers /\ browsers[w_sid[c]] = b_inst[c])
\* two connections of one session id are at work on the one instance that
\* was initialized
C38_Witness ==
  /\ wpc[1] = "b_act" /\ wpc[2] = "b_act"
  /\ w_sid[1] = w_sid[2]
  /\ next_inst = 1
  /\ b_inst[1] = 1 /\ b_inst[2] = 1
  /\ live = {1}

\* C39: handle_browser_command never raises: every call ends with a result,
\* and the result has success false for an unknown action, a failed
\* initialization and a browser closed while the action was awaited.
C39_NeverRaises ==
  [][\A c \in Conns :
       (b_result'[c] # b_result[c] \/ (wpc[c] \in {"b_init", "b_act"} /\ wpc'[c] = "loop"))
         => /\ b_result'[c].ended = "returned"
            /\ (\/ b_result'[c].action = "unknown"
                \/ wpc[c] = "b_init" /\ next_inst' = next_inst
                \/ wpc[c] = "b_act" /\ b_inst[c] \notin live)
                 => ~b_result'[c].success]_vars
\* a connection's action ended with a failure because the browser it worked
\* with was closed by the cleanup of another connection
C39_Witness ==
  \E c \in Conns :
    /\ b_result[c].action = "navigate"
    /\ b_result[c].error = "closed"
    /\ wpc[c] = "loop"

====
